---------------------------- MODULE Spec2Model ----------------------------
(***************************************************************************)
(* A model of tlstester.py: the in-memory PKI (class Certs), the startup   *)
(* of the listener fleet (class Server), the forking MAPI listeners        *)
(* (MyTCPServer), the per-connection handler (MapiHandler) and the HTTP    *)
(* directory (WebHandler).                                                  *)
(*                                                                         *)
(* Specifications:                                                         *)
(*   Spec       startup, listeners and connections, a small population of  *)
(*              clients;                                                   *)
(*   SpecFlood  the same next-state relation, with a population of clients *)
(*              that connect to one endpoint and then stay silent;         *)
(*   SpecFrame  MapiHandler.recv_message run step by step over a byte      *)
(*              stream;                                                    *)
(*   SpecPki    Certs.__init__ run one generated subject at a time, with   *)
(*              the clock advancing between the subjects.                  *)
(***************************************************************************)
EXTENDS Integers, Sequences, FiniteSets, Bags, TLC

(***************************************************************************)
(* Bounds of the model.                                                    *)
(***************************************************************************)
\* Connections (child processes) that exist at the same time, those of the
\* silent population of SpecFlood not counted.
MaxConns == 1

\* Length of the byte streams a client sends in SpecFrame.
MaxStream == 4

(***************************************************************************)
(* Python values.                                                          *)
(***************************************************************************)
\* None, where the other values are strings.
None == "None"

\* None, where the other values are records (a name, a context).
NoneRec == [none |-> TRUE]

\* ssl.TLSVersion (an IntEnum: every member is a non-zero int, hence truthy).
TLSv1_2 == 771
TLSv1_3 == 772
MINIMUM_SUPPORTED == -2
MAXIMUM_SUPPORTED == -1

\* ssl.VerifyMode
CERT_NONE == 0
CERT_REQUIRED == 2

\* bool(v) of an int
Truthy(v) == v # 0

\* The largest TCP port; bind() raises OverflowError outside 0..65535.
MaxPortNumber == (2 ^ 16) - 1

(***************************************************************************)
(* class Certs: the PKI generator and the artifact store.                   *)
(***************************************************************************)
\* timedelta(n) is n days; instants are counted in seconds.
Day == 86400

\* The instant the model's run starts at.
T0 == 0

Hostname == "localhost.localdomain"

\* gen_ca: the distinguished name of a CA.
CaName(name) == [O |-> "Org " \o name, CN |-> "The Certificate Authority"]

\* gen_server: the distinguished name of a leaf.
ServerName(name, hostname) == [O |-> "Org " \o name, CN |-> hostname]

\* Certs.__init__: empty maps.
EmptyCerts ==
    [ files   |-> <<>>,    \* _files: artifact name -> PEM blocks
      keys    |-> <<>>,    \* _keys: subject -> private key
      certs   |-> <<>>,    \* _certs: subject -> certificate
      parents |-> <<>>,    \* _parents: subject -> issuer's name or None
      ncalls  |-> 0,       \* keys generated so far (each key is fresh)
      failed  |-> FALSE ]  \* an assertion of insert_file failed

\* dict[k] = v
Put(d, k, v) == [x \in (DOMAIN d) \cup {k} |-> IF x = k THEN v ELSE d[x]]

\* A variant of InsertFile: without the assertion on the name.
InsertFileOverwrite(st, name, content) ==
    IF st.failed
    THEN st
    ELSE [st EXCEPT !.files = Put(st.files, name, content)]

\* insert_file: asserts that the name is new.
InsertFile(st, name, content) ==
    IF st.failed \/ name \in DOMAIN st.files
    THEN [st EXCEPT !.failed = TRUE]
    ELSE [st EXCEPT !.files = Put(st.files, name, content)]

\* A variant of ChainOf: the subject's own certificate only.
ChainOfSelfOnly(certs, parents, n) ==
    IF n = NoneRec \/ n \notin DOMAIN certs
    THEN <<>>
    ELSE <<[pem |-> "CERTIFICATE", cert |-> certs[n]]>>

\* The loop of gen_key that walks the parents: the subject's certificate
\* first, then its issuers'.  _parents.get(n) is None for an unknown name.
RECURSIVE ChainOf(_, _, _)
ChainOf(certs, parents, n) ==
    IF n = NoneRec \/ n \notin DOMAIN certs
    THEN <<>>
    ELSE <<[pem |-> "CERTIFICATE", cert |-> certs[n]]>>
         \o ChainOf(certs, parents,
                    IF n \in DOMAIN parents THEN parents[n] ELSE NoneRec)

\* gen_key, called at instant now.
GenKey(st, name, subject_name, parent_name, not_before, not_after, is_ca, keycrt, now) ==
    LET key         == [kid |-> st.ncalls + 1]
        self_signed == parent_name = NoneRec
        issuer_name == IF self_signed THEN subject_name ELSE parent_name
        issuer_key  == IF self_signed THEN key ELSE st.keys[parent_name]
        cert == [ issuer           |-> issuer_name,
                  subject          |-> subject_name,
                  public_key       |-> key,
                  signed_by        |-> issuer_key,
                  not_valid_before |-> now + not_before * Day,
                  not_valid_after  |-> now + not_after * Day,
                  ca               |-> is_ca ]
        st1 == [st EXCEPT !.keys    = Put(st.keys, subject_name, key),
                          !.certs   = Put(st.certs, subject_name, cert),
                          !.parents = Put(st.parents, subject_name, parent_name),
                          !.ncalls  = st.ncalls + 1]
        pem_key == <<[pem |-> "RSA PRIVATE KEY", key |-> key]>>
        st2     == InsertFile(st1, name \o ".key", pem_key)
        pem_crt == ChainOf(st1.certs, st1.parents, subject_name)
        st3     == InsertFile(st2, name \o ".crt", pem_crt)
    IN  IF keycrt
        THEN InsertFile(st3, name \o ".keycrt", pem_key \o pem_crt)
        ELSE st3

\* gen_keys: the subjects in the order they are generated.
Subjects ==
    << [name |-> "ca1",      ca |-> TRUE,  parent |-> None,  not_before |-> 0,   not_after |-> 14, keycrt |-> FALSE],
       [name |-> "server1",  ca |-> FALSE, parent |-> "ca1", not_before |-> 0,   not_after |-> 14, keycrt |-> FALSE],
       [name |-> "server1x", ca |-> FALSE, parent |-> "ca1", not_before |-> -15, not_after |-> -1, keycrt |-> FALSE],
       [name |-> "ca2",      ca |-> TRUE,  parent |-> None,  not_before |-> 0,   not_after |-> 14, keycrt |-> FALSE],
       [name |-> "server2",  ca |-> FALSE, parent |-> "ca2", not_before |-> 0,   not_after |-> 14, keycrt |-> FALSE],
       [name |-> "client2",  ca |-> FALSE, parent |-> "ca2", not_before |-> 0,   not_after |-> 14, keycrt |-> TRUE],
       [name |-> "ca3",      ca |-> TRUE,  parent |-> None,  not_before |-> 0,   not_after |-> 14, keycrt |-> FALSE],
       [name |-> "server3",  ca |-> FALSE, parent |-> "ca3", not_before |-> 0,   not_after |-> 14, keycrt |-> FALSE] >>

\* A variant of GenSubject: gen_server without its not_before and not_after
\* arguments, every certificate with the default offsets of gen_key.
GenSubjectDefaultOffsets(st, i, hostname, now) ==
    LET s == Subjects[i]
    IN  IF s.ca
        THEN GenKey(st, s.name, CaName(s.name), NoneRec,
                    0, 14, TRUE, s.keycrt, now)
        ELSE GenKey(st, s.name, ServerName(s.name, hostname), CaName(s.parent),
                    0, 14, FALSE, s.keycrt, now)

\* The i-th call of gen_keys (gen_ca or gen_server), at instant now.
GenSubject(st, i, hostname, now) ==
    LET s == Subjects[i]
    IN  IF s.ca
        THEN GenKey(st, s.name, CaName(s.name), NoneRec,
                    s.not_before, s.not_after, TRUE, s.keycrt, now)
        ELSE GenKey(st, s.name, ServerName(s.name, hostname), CaName(s.parent),
                    s.not_before, s.not_after, FALSE, s.keycrt, now)

\* Certs(hostname), every key generated at the instant nows[i].
RECURSIVE GenKeysUpTo(_, _, _)
GenKeysUpTo(i, hostname, nows) ==
    IF i = 0
    THEN EmptyCerts
    ELSE GenSubject(GenKeysUpTo(i - 1, hostname, nows), i, hostname, nows[i])

GenKeys(hostname, nows) == GenKeysUpTo(Len(Subjects), hostname, nows)

\* Certs.get_file: _files.get(name), None for an unknown name.  The result
\* is [found, content]; found = FALSE stands for None.
GetFile(files, name) ==
    IF name \in DOMAIN files
    THEN [found |-> TRUE, content |-> files[name]]
    ELSE [found |-> FALSE, content |-> <<>>]

(***************************************************************************)
(* Server.ssl_context: the TLS acceptor of an endpoint.                     *)
(***************************************************************************)
IsKeyBlock(b) == b.pem = "RSA PRIVATE KEY"
IsCertBlock(b) == b.pem = "CERTIFICATE"

\* SSLContext(ssl.PROTOCOL_TLS_SERVER): the library's defaults.
NewSSLContext ==
    [ minimum_version |-> MINIMUM_SUPPORTED,
      maximum_version |-> MAXIMUM_SUPPORTED,
      verify_mode     |-> CERT_NONE,
      key             |-> NoneRec,   \* private key of load_cert_chain
      chain           |-> <<>>,      \* certificates of load_cert_chain
      cadata          |-> <<>>,      \* certificates of load_verify_locations
      error           |-> FALSE ]    \* building the context raised

\* The default of ssl_context's parameter tls_version.
DefaultTlsVersion == TLSv1_3

\* context.minimum_version = tls_version or TLSv1_3
\* if tls_version: context.maximum_version = tls_version
SetVersions(context, tls_version) ==
    LET c1 == [context EXCEPT !.minimum_version =
                   IF Truthy(tls_version) THEN tls_version ELSE TLSv1_3]
    IN  IF Truthy(tls_version)
        THEN [c1 EXCEPT !.maximum_version = tls_version]
        ELSE c1

\* The temporary file (key, then certificates) and load_cert_chain on it.
LoadCertChain(context, files, cert_name) ==
    LET k == GetFile(files, cert_name \o ".key")
        c == GetFile(files, cert_name \o ".crt")
        pem == k.content \o c.content
        keyblocks == SelectSeq(pem, IsKeyBlock)
        crtblocks == SelectSeq(pem, IsCertBlock)
    IN  IF ~k.found \/ ~c.found \/ keyblocks = <<>> \/ crtblocks = <<>>
        THEN [context EXCEPT !.error = TRUE]
        ELSE [context EXCEPT
                !.key   = keyblocks[1].key,
                !.chain = [i \in 1..Len(crtblocks) |-> crtblocks[i].cert]]

\* A variant of LoadClientTrust: the trust anchors loaded, verify_mode left
\* as it was.
LoadClientTrustNoVerify(context, files, client_cert) ==
    IF client_cert = None \/ client_cert = ""
    THEN context
    ELSE LET c == GetFile(files, client_cert \o ".crt")
             crtblocks == SelectSeq(c.content, IsCertBlock)
         IN  [context EXCEPT
                !.cadata = [i \in 1..Len(crtblocks) |-> crtblocks[i].cert]]

\* if client_cert: verify_mode = CERT_REQUIRED; load_verify_locations(...)
LoadClientTrust(context, files, client_cert) ==
    IF client_cert = None \/ client_cert = ""
    THEN context
    ELSE LET c == GetFile(files, client_cert \o ".crt")
             crtblocks == SelectSeq(c.content, IsCertBlock)
         IN  IF ~c.found
             THEN [context EXCEPT !.error = TRUE]
             ELSE [context EXCEPT
                     !.verify_mode = CERT_REQUIRED,
                     !.cadata = [i \in 1..Len(crtblocks) |-> crtblocks[i].cert]]

SslContext(files, cert_name, tls_version, client_cert) ==
    LoadClientTrust(
        LoadCertChain(SetVersions(NewSSLContext, tls_version), files, cert_name),
        files, client_cert)

(***************************************************************************)
(* The TLS handshake of context.wrap_socket, as the library decides it.     *)
(***************************************************************************)
\* The protocol versions the library can negotiate.
TlsVersions == {TLSv1_2, TLSv1_3}

SetMax(S) == CHOOSE m \in S : \A y \in S : y <= m
SetMin(S) == CHOOSE m \in S : \A y \in S : m <= y

\* The versions a side with these limits accepts.
VersionRange(lo, hi) ==
    LET l == IF lo = MINIMUM_SUPPORTED THEN SetMin(TlsVersions)
             ELSE IF lo = MAXIMUM_SUPPORTED THEN SetMax(TlsVersions) ELSE lo
        h == IF hi = MAXIMUM_SUPPORTED THEN SetMax(TlsVersions)
             ELSE IF hi = MINIMUM_SUPPORTED THEN SetMin(TlsVersions) ELSE hi
    IN  {v \in TlsVersions : l <= v /\ v <= h}

\* A chain a peer presents is accepted by a verifier trusting the
\* certificates `anchors` at instant now: every certificate is within its
\* validity, every one but the last is signed by the next, and the last is
\* signed by a trusted certificate.
ChainVerifies(chain, anchors, now) ==
    /\ chain # <<>>
    /\ \A i \in 1..Len(chain) :
          /\ chain[i].not_valid_before <= now
          /\ now <= chain[i].not_valid_after
    /\ \A i \in 1..(Len(chain) - 1) :
          /\ chain[i].issuer = chain[i + 1].subject
          /\ chain[i].signed_by = chain[i + 1].public_key
    /\ \E i \in 1..Len(anchors) :
          /\ chain[Len(chain)].issuer = anchors[i].subject
          /\ chain[Len(chain)].signed_by = anchors[i].public_key

\* A client: the versions it offers, the CA certificates it trusts, and the
\* certificate chain it presents when asked (<<>>: none).
HandshakeSucceeds(context, client, now) ==
    /\ VersionRange(context.minimum_version, context.maximum_version)
          \cap VersionRange(client.minimum_version, client.maximum_version) # {}
    /\ ChainVerifies(context.chain, client.trust, now)
    /\ context.verify_mode = CERT_REQUIRED
          => ChainVerifies(client.chain, context.cadata, now)

\* The certificates of an artifact.
CertsOf(files, name) ==
    LET b == SelectSeq(GetFile(files, name).content, IsCertBlock)
    IN  [i \in 1..Len(b) |-> b[i].cert]

\* The clients of the model: one or two protocol versions, one trusted CA,
\* with or without client2's certificate.
Clients(files) ==
    { [ minimum_version |-> v[1], maximum_version |-> v[2],
        trust |-> CertsOf(files, ca \o ".crt"),
        chain |-> IF withcert THEN CertsOf(files, "client2.crt") ELSE <<>> ] :
      v \in {w \in TlsVersions \X TlsVersions : w[1] <= w[2]},
      ca \in {"ca1", "ca2", "ca3"}, withcert \in BOOLEAN }

(***************************************************************************)
(* MAPI framing: MapiHandler.send_message and MapiHandler.recv_message.     *)
(***************************************************************************)
CHALLENGE == "s7NzFDHo0UdlE:merovingian:9:RIPEMD160,SHA512,SHA384,SHA256,SHA224,SHA1:LIT:SHA512:"
ERRORMESSAGE == "!Sorry, this is not a real MonetDB instance"

\* A variant of PackShort: the bytes in network order (">h").
PackShortBigEndian(v) ==
    IF v < -(2 ^ 15) \/ v >= 2 ^ 15
    THEN <<>>
    ELSE LET u == IF v < 0 THEN v + 2 ^ 16 ELSE v
         IN  <<u \div 256, u % 256>>

\* struct.pack("<h", v): two bytes, little-endian, two's complement.  Raises
\* struct.error outside -32768..32767 (modelled as <<>>).
PackShort(v) ==
    IF v < -(2 ^ 15) \/ v >= 2 ^ 15
    THEN <<>>
    ELSE LET u == IF v < 0 THEN v + 2 ^ 16 ELSE v
         IN  <<u % 256, u \div 256>>

\* struct.unpack("<h", head)[0]: a signed 16-bit integer.
UnpackShort(head) ==
    LET u == head[1] + 256 * head[2]
    IN  IF u >= 2 ^ 15 THEN u - 2 ^ 16 ELSE u

\* A variant of SendMessage: the header without the last-chunk bit.
SendMessageNoLastBit(msg) == [head |-> PackShort(2 * Len(msg)), body |-> msg]

\* send_message: the bytes handed to sendall, header and body.
SendMessage(msg) == [head |-> PackShort(2 * Len(msg) + 1), body |-> msg]

\* recv_bytes(size) at position pos of the bytes the peer sends before it
\* closes: the number of bytes returned, fewer than size only at EOF.
RecvBytes(stream, pos, size) ==
    IF Len(stream) - pos < size THEN Len(stream) - pos ELSE size

\* A variant of RecvChunk: `if last` inside the body of `if size > 0`.
RecvChunkLastInBody(stream, pos) ==
    LET nhead == RecvBytes(stream, pos, 2)
    IN  IF nhead < 2
        THEN [ outcome |-> "eof", pos |-> pos + nhead, header |-> -1,
               size |-> 0, last |-> FALSE, body |-> 0 ]
        ELSE LET head == <<stream[pos + 1], stream[pos + 2]>>
                 n    == UnpackShort(head)
                 size == n \div 2
                 last == (n % 2) > 0
                 nbody == IF size > 0 THEN RecvBytes(stream, pos + 2, size) ELSE 0
             IN  [ outcome |-> IF size > 0 /\ nbody < size THEN "eof"
                               ELSE IF size > 0 /\ last THEN "complete"
                               ELSE "more",
                   pos     |-> pos + 2 + nbody,
                   header  |-> head[1] + 256 * head[2],
                   size    |-> size,
                   last    |-> last,
                   body    |-> nbody ]

\* One turn of the loop of recv_message, from position pos: the header read,
\* the size and last flag computed from it, the body bytes read, the new
\* position and whether the loop returns True ("complete"), breaks ("eof")
\* or goes round again ("more").
RecvChunk(stream, pos) ==
    LET nhead == RecvBytes(stream, pos, 2)
    IN  IF nhead < 2
        THEN [ outcome |-> "eof", pos |-> pos + nhead, header |-> -1,
               size |-> 0, last |-> FALSE, body |-> 0 ]
        ELSE LET head == <<stream[pos + 1], stream[pos + 2]>>
                 n    == UnpackShort(head)
                 size == n \div 2
                 last == (n % 2) > 0
                 nbody == IF size > 0 THEN RecvBytes(stream, pos + 2, size) ELSE 0
             IN  [ outcome |-> IF size > 0 /\ nbody < size THEN "eof"
                               ELSE IF last THEN "complete" ELSE "more",
                   pos     |-> pos + 2 + nbody,
                   header  |-> head[1] + 256 * head[2],
                   size    |-> size,
                   last    |-> last,
                   body    |-> nbody ]

\* recv_message on the bytes the peer sends before it closes: the result and
\* the number of bytes read.
RECURSIVE RecvMessageFrom(_, _)
RecvMessageFrom(stream, pos) ==
    LET c == RecvChunk(stream, pos)
    IN  IF c.outcome = "more"
        THEN RecvMessageFrom(stream, c.pos)
        ELSE [result |-> c.outcome = "complete", nread |-> c.pos]

RecvMessage(stream) == RecvMessageFrom(stream, 0)

(***************************************************************************)
(* The state.                                                              *)
(***************************************************************************)
VARIABLES
    args,       \* the command line: [base_port, sequential]
    env,        \* the environment: [busy, os_ports, flood, keygen]
    clock,      \* the wall clock datetime.utcnow() reads, in seconds
    certs,      \* the Certs object, main's `certs`
    pc,         \* the main thread: "gen_keys", "init", "serve_forever" or
                \* "aborted"
    nspawned,   \* the spawn_http/spawn_mapi calls of Server.__init__ done
    next_port,  \* Server.next_port
    portmap,    \* Server.portmap: <<name, port>> in insertion order
    workers,    \* Server.workers: the listeners' names in insertion order
    sockets,    \* listener -> [requested, port]: its bound, listening socket
    contexts,   \* MAPI endpoint -> the SSLContext of its handler, or NoneRec
    nstarted,   \* the worker threads serve_forever has started
    lstate,     \* MAPI listener -> "select" or "waitpid" (ForkingMixIn)
    conns,      \* the listeners' active children: a bag of connections
    http,       \* the last response of the HTTP directory
    rd          \* the reader of SpecFrame

vars == <<args, env, clock, certs, pc, nspawned, next_port, portmap, workers,
          sockets, contexts, nstarted, lstate, conns, http, rd>>

startupVars == <<pc, nspawned, next_port, portmap, workers, sockets, contexts>>

(***************************************************************************)
(* Server.__init__: the declared endpoints and the binding of the ports.    *)
(***************************************************************************)
\* The spawn_mapi calls of Server.__init__, in order.  cert_name = None: the
\* context argument is None; otherwise it is ssl_context(cert_name, ...).
MapiDecl ==
    << [name |-> "plain",       cert_name |-> None,       tls_version |-> DefaultTlsVersion, client_cert |-> None],
       [name |-> "server1",     cert_name |-> "server1",  tls_version |-> DefaultTlsVersion, client_cert |-> None],
       [name |-> "server2",     cert_name |-> "server2",  tls_version |-> DefaultTlsVersion, client_cert |-> None],
       [name |-> "server3",     cert_name |-> "server3",  tls_version |-> DefaultTlsVersion, client_cert |-> None],
       [name |-> "expiredcert", cert_name |-> "server1x", tls_version |-> DefaultTlsVersion, client_cert |-> None],
       [name |-> "tls12",       cert_name |-> "server1",  tls_version |-> TLSv1_2,           client_cert |-> None],
       [name |-> "clientauth",  cert_name |-> "server1",  tls_version |-> DefaultTlsVersion, client_cert |-> "ca2"] >>

MapiNames == {MapiDecl[i].name : i \in 1..Len(MapiDecl)}

\* The listeners Server.__init__ spawns: the HTTP directory and the MAPI
\* endpoints.
NumListeners == Len(MapiDecl) + 1

\* The context Server.__init__ passes to spawn_mapi for a declaration.
ContextFor(files, d) ==
    IF d.cert_name = None
    THEN NoneRec
    ELSE SslContext(files, d.cert_name, d.tls_version, d.client_cert)

\* The ports that cannot be bound: held by another process or by a listener
\* of this one.
InUse(socks, busy) == busy \cup {socks[l].port : l \in DOMAIN socks}

\* The port the kernel gives to bind((addr, 0)): the first free port of the
\* order it hands the ephemeral ports out in; -1 when there is none.
OsAssigned(os_ports, used) ==
    LET free == {i \in 1..Len(os_ports) : os_ports[i] \notin used}
    IN  IF free = {} THEN -1 ELSE os_ports[SetMin(free)]

\* A variant of Bind: a bind that raises nothing.
BindAnyway(port, os_ports, used) ==
    IF port = 0 THEN OsAssigned(os_ports, {}) ELSE port

\* TCPServer((listen_addr, port), ...): server_bind and server_activate.  The
\* port of server.server_address, or -1 when bind raises (the port is out of
\* range, or in use).
Bind(port, os_ports, used) ==
    IF port < 0 \/ port > MaxPortNumber THEN -1
    ELSE IF port = 0 THEN OsAssigned(os_ports, used)
    ELSE IF port \in used THEN -1
    ELSE port

\* A variant of InitialNextPort: the flag --sequential ignored.
InitialNextPortAlways(base_port, sequential) == base_port + 1

\* self.next_port = base_port + 1 if sequential else 0
InitialNextPort(base_port, sequential) ==
    IF sequential THEN base_port + 1 ELSE 0

\* A variant of AdoptedPort: the port asked for is kept.
AdoptedPortRequested(requested, server_port) == requested

\* spawn_mapi: port = server.server_address[1], the port the socket is bound
\* to, replaces the port asked for.
AdoptedPort(requested, server_port) == server_port

\* spawn_mapi: port = self.next_port; if self.next_port > 0: self.next_port += 1
NextPortAfter(np) == IF np > 0 THEN np + 1 ELSE np

\* A variant of PortmapPut: the map replaced by one holding the new entry.
PortmapPutReplacing(pm, name, port) == <<<<name, port>>>>

\* A variant of PortmapPut: spawn_mapi without the write to the port map.
PortmapPutNothing(pm, name, port) == pm

\* spawn_mapi: self.portmap[name] = port (a dict keeps the insertion order;
\* writing a name again replaces its port in place).
PortmapPut(pm, name, port) ==
    IF \E i \in 1..Len(pm) : pm[i][1] = name
    THEN [i \in 1..Len(pm) |-> IF pm[i][1] = name THEN <<name, port>> ELSE pm[i]]
    ELSE Append(pm, <<name, port>>)

PortmapNames(pm) == {pm[i][1] : i \in 1..Len(pm)}

PortmapGet(pm, name) ==
    LET i == CHOOSE j \in 1..Len(pm) : pm[j][1] = name IN pm[i][2]

\* spawn_http(listen_addr, base_port)
SpawnHttp ==
    /\ pc = "init"
    /\ nspawned = 0
    /\ LET port == Bind(args.base_port, env.os_ports, InUse(sockets, env.busy))
       IN  IF port < 0
           THEN /\ pc' = "aborted"
                /\ UNCHANGED <<nspawned, workers, sockets>>
           ELSE /\ sockets' = Put(sockets, "http",
                                  [requested |-> args.base_port, port |-> port])
                /\ workers' = Append(workers, "http")
                /\ nspawned' = 1
                /\ pc' = pc
    /\ UNCHANGED <<args, env, clock, certs, next_port, portmap, contexts, nstarted,
                   lstate, conns, http, rd>>

\* The k-th spawn_mapi call of Server.__init__, its context built first.
\* After the last one Server.__init__ returns and main calls serve_forever.
SpawnMapi ==
    /\ pc = "init"
    /\ nspawned \in 1..Len(MapiDecl)
    /\ LET d    == MapiDecl[nspawned]
           ctx  == ContextFor(certs.files, d)
           req  == next_port
           port == Bind(req, env.os_ports, InUse(sockets, env.busy))
       IN  IF ctx # NoneRec /\ ctx.error
           THEN /\ pc' = "aborted"
                /\ UNCHANGED <<nspawned, next_port, portmap, workers, sockets,
                               contexts>>
           ELSE IF port < 0
           THEN /\ pc' = "aborted"
                /\ next_port' = NextPortAfter(next_port)
                /\ UNCHANGED <<nspawned, portmap, workers, sockets, contexts>>
           ELSE /\ next_port' = NextPortAfter(next_port)
                /\ contexts' = Put(contexts, d.name, ctx)
                /\ sockets' = Put(sockets, d.name,
                                  [requested |-> req, port |-> port])
                /\ portmap' = PortmapPut(portmap, d.name, AdoptedPort(req, port))
                /\ workers' = Append(workers, d.name)
                /\ nspawned' = nspawned + 1
                /\ pc' = IF nspawned = Len(MapiDecl) THEN "serve_forever" ELSE pc
    /\ UNCHANGED <<args, env, clock, certs, nstarted, lstate, conns, http, rd>>

\* serve_forever: start the thread of the next worker.
StartWorker ==
    /\ pc = "serve_forever"
    /\ nstarted < Len(workers)
    /\ nstarted' = nstarted + 1
    /\ UNCHANGED <<args, env, clock, certs, startupVars, lstate, conns, http, rd>>

\* The listener's thread runs its serve_forever loop.
Started(l) == \E i \in 1..nstarted : workers[i] = l

(***************************************************************************)
(* Initial states: main has built the Certs object and enters              *)
(* Server.__init__.                                                         *)
(***************************************************************************)
\* The ephemeral ports, in an order the kernel hands them out in.
OsPortsUp == [i \in 1..9 |-> 49151 + i]
OsPortsDown == [i \in 1..9 |-> 49161 - i]

\* Environments: no port held by another process, or two of them held.
\* keygen = FALSE: generating a key raises (main's Certs(args.hostname)).
EnvUp == [busy |-> {}, os_ports |-> OsPortsUp, flood |-> None, keygen |-> TRUE]
EnvDown == [busy |-> {}, os_ports |-> OsPortsDown, flood |-> None, keygen |-> TRUE]
EnvBusy == [busy |-> {8003, 49153}, os_ports |-> OsPortsUp, flood |-> None, keygen |-> TRUE]
EnvNoKeys == [EnvUp EXCEPT !.keygen = FALSE]

\* The runs of the model: a command line and an environment.
Runs ==
    { <<[base_port |-> -1,    sequential |-> TRUE],  EnvUp>>,
      <<[base_port |-> 0,     sequential |-> TRUE],  EnvUp>>,
      <<[base_port |-> 8000,  sequential |-> TRUE],  EnvUp>>,
      <<[base_port |-> 8000,  sequential |-> TRUE],  EnvBusy>>,
      <<[base_port |-> 65530, sequential |-> TRUE],  EnvUp>>,
      <<[base_port |-> 0,     sequential |-> FALSE], EnvUp>>,
      <<[base_port |-> 8000,  sequential |-> FALSE], EnvUp>>,
      <<[base_port |-> 8000,  sequential |-> FALSE], EnvDown>>,
      <<[base_port |-> 8000,  sequential |-> FALSE], EnvBusy>>,
      <<[base_port |-> 8000,  sequential |-> TRUE],  EnvNoKeys>> }

RdIdle == [state |-> "idle"]

InitServer(a, e) ==
    /\ args = a
    /\ env = e
    /\ clock = T0
    /\ certs = IF e.keygen
               THEN GenKeys(Hostname, [i \in 1..Len(Subjects) |-> T0])
               ELSE [EmptyCerts EXCEPT !.failed = TRUE]
    /\ pc = IF e.keygen THEN "init" ELSE "aborted"
    /\ nspawned = 0
    /\ next_port = InitialNextPort(a.base_port, a.sequential)
    /\ portmap = <<>>
    /\ workers = <<>>
    /\ sockets = <<>>
    /\ contexts = <<>>
    /\ nstarted = 0
    /\ lstate = [l \in MapiNames |-> "select"]
    /\ conns = EmptyBag
    /\ http = [route |-> None, status |-> 0, body |-> <<>>]
    /\ rd = RdIdle

Init == \E r \in Runs : InitServer(r[1], r[2])

(***************************************************************************)
(* MyTCPServer: socketserver.ForkingTCPServer.  Every accepted connection  *)
(* is handled by a forked child; the listener keeps its children in        *)
(* active_children and reaps them in service_actions (collect_children),   *)
(* which blocks in waitpid while max_children of them exist.               *)
(***************************************************************************)
\* ForkingMixIn.max_children, which MyTCPServer inherits.
MaxChildren == 40

Exited(c) == c.pc = "exited"
Hung(c) == c.pc \in {"handshake_hung", "recv_hung"}

\* The part of the bag that is one listener's children.
ChildrenOf(b, e) ==
    LET S == {c \in BagToSet(b) : c.ep = e} IN [c \in S |-> b[c]]

\* len(self.active_children) of a listener.
ActiveChildren(b, e) == BagCardinality(ChildrenOf(b, e))

\* collect_children, below max_children: every child that has exited is
\* reaped and discarded.
Reap(b, e) ==
    LET S == {c \in BagToSet(b) : ~(c.ep = e /\ Exited(c))} IN [c \in S |-> b[c]]

\* The connections of the silent population: those on the flooded endpoint
\* whose client has gone silent for good.
Flooding(c) == c.ep = env.flood /\ Hung(c)

\* The connections of a bag that count against MaxConns.
Population(b) ==
    LET S == {c \in BagToSet(b) : ~Flooding(c)}
    IN  BagCardinality([c \in S |-> b[c]])

ReplaceConn(c, d) == (conns (-) SetToBag({c})) (+) SetToBag({d})

\* A variant of FirstStep: a handler that never wraps the socket.
FirstStepNoHandshake(context) == "challenge"

\* MapiHandler.handle, at its start: with a context the handler goes into
\* wrap_socket, without one (plain) straight to the challenge.
FirstStep(context) == IF context # NoneRec THEN "handshake" ELSE "challenge"

\* Earlier children of the listener whose handshake failed, not yet reaped.
HandshakeFailedOn(b, e) ==
    \E c \in BagToSet(b) :
        /\ c.ep = e
        /\ Exited(c)
        /\ c.log # <<>>
        /\ c.log[1] \in {"handshake_SSLError", "handshake_OSError"}

\* The child process_request forks for a connection accepted on e.
NewChild(e) ==
    [ ep   |-> e,
      pc   |-> FirstStep(contexts[e]),
      log  |-> <<>>,        \* the handler's events, in order
      sent |-> <<>>,        \* the messages handed to sendall, in order
      request |-> <<>>,     \* the bytes the client sent after the challenge
      after_failure |-> HandshakeFailedOn(conns, e) ]

\* One turn of the listener's serve_forever loop with a connection pending:
\* accept, fork (process_request), then service_actions.
Accept(e) ==
    /\ Started(e)
    /\ lstate[e] = "select"
    /\ Population(Reap(conns, e)) < MaxConns
    /\ LET b == conns (+) SetToBag({NewChild(e)})
       IN  IF ActiveChildren(b, e) >= MaxChildren
           THEN /\ conns' = b
                /\ lstate' = [lstate EXCEPT ![e] = "waitpid"]
           ELSE /\ conns' = Reap(b, e)
                /\ lstate' = lstate
    /\ UNCHANGED <<args, env, clock, certs, startupVars, nstarted, http, rd>>

\* One turn of the loop with no connection pending: service_actions only.
Poll(e) ==
    /\ Started(e)
    /\ lstate[e] = "select"
    /\ \E c \in BagToSet(conns) : c.ep = e /\ Exited(c)
    /\ conns' = Reap(conns, e)
    /\ UNCHANGED <<args, env, clock, certs, startupVars, nstarted, lstate, http, rd>>

\* collect_children blocked in os.waitpid(-1, 0): it returns when a child has
\* exited; the loop ends once fewer than max_children are left.
WaitpidReturn(e) ==
    /\ lstate[e] = "waitpid"
    /\ \E c \in BagToSet(conns) :
          /\ c.ep = e
          /\ Exited(c)
          /\ LET b == conns (-) SetToBag({c})
             IN  IF ActiveChildren(b, e) >= MaxChildren
                 THEN /\ conns' = b
                      /\ lstate' = lstate
                 ELSE /\ conns' = Reap(b, e)
                      /\ lstate' = [lstate EXCEPT ![e] = "select"]
    /\ UNCHANGED <<args, env, clock, certs, startupVars, nstarted, http, rd>>

(***************************************************************************)
(* MapiHandler.handle, in the child.                                        *)
(***************************************************************************)
\* The handler returns (or raises): the child closes the socket and exits.
Finish(c, event) == [c EXCEPT !.pc = "exited", !.log = Append(c.log, event)]

\* wrap_socket returned: the handshake succeeded.
OnHandshakeOk(c) ==
    [c EXCEPT !.pc = "challenge", !.log = Append(c.log, "handshake")]

\* A variant of OnSSLError: the except clause without its return.
OnSSLErrorNoReturn(c) ==
    [c EXCEPT !.pc = "challenge", !.log = Append(c.log, "handshake_SSLError")]

\* wrap_socket raised SSLError: logged, and handle returns.
OnSSLError(c) == Finish(c, "handshake_SSLError")

\* wrap_socket raised an OSError that is no SSLError (the peer reset the
\* connection): not caught by handle; the child reports it and exits.
OnHandshakeOSError(c) == Finish(c, "handshake_OSError")

\* What wrap_socket can make of the connection: any client of the model,
\* which completes the handshake or resets the connection during it.
WrapSocket(c) ==
    { IF reset THEN OnHandshakeOSError(c)
      ELSE IF HandshakeSucceeds(contexts[c.ep], client, T0)
      THEN OnHandshakeOk(c)
      ELSE OnSSLError(c) :
      client \in Clients(certs.files), reset \in BOOLEAN }

\* The TLS handshake of a client with the endpoint's context.
Handshake(c) ==
    /\ c.pc = "handshake"
    /\ \E d \in WrapSocket(c) : conns' = ReplaceConn(c, d)
    /\ UNCHANGED <<args, env, clock, certs, startupVars, nstarted, lstate, http, rd>>

\* self.send_message(msg) succeeded.
Sent(c, msg, event, to) ==
    [c EXCEPT !.pc = to,
              !.log = Append(c.log, event),
              !.sent = Append(c.sent, SendMessage(msg))]

\* self.send_message(self.CHALLENGE); an OSError ends the handler.
SendChallenge(c) ==
    /\ c.pc = "challenge"
    /\ \E ok \in BOOLEAN :
          conns' = ReplaceConn(c,
                      IF ok THEN Sent(c, CHALLENGE, "challenge", "recv")
                      ELSE Finish(c, "OSError"))
    /\ UNCHANGED <<args, env, clock, certs, startupVars, nstarted, lstate, http, rd>>

\* A message of two chunks: one of 16384 bytes, not the last (header
\* 0x8000), whose body begins with the bytes 0xFE 0x7F, and an empty last
\* chunk (header 0x0001).
BigChunkMessage ==
    <<0, 128>>
        \o [k \in 1..16384 |-> IF k = 1 THEN 254 ELSE IF k = 2 THEN 127 ELSE 0]
        \o <<1, 0>>

\* The bytes a client sends after the challenge, before it closes or resets
\* the connection or waits for the answer.
RequestStreams ==
    { <<>>, <<1, 0>>, <<3, 0, 65>>, <<2, 0, 65>>, <<2, 0, 65, 1, 0>>, <<1, 128>>,
      BigChunkMessage }

\* The clients of the silent population send nothing.
RequestStreamsOn(e) == IF e = env.flood THEN {<<>>} ELSE RequestStreams

\* if self.recv_message(): ... ; the client's bytes arrive and then it
\* closes (EOF), resets (OSError) the connection, or keeps it open and
\* waits: recv_message has returned True by then, or recv blocks.
AfterRecvMessage(c) ==
    { LET d == [c EXCEPT !.request = stream]
      IN  IF RecvMessage(stream).result
          THEN [d EXCEPT !.pc = "error", !.log = Append(c.log, "request")]
          ELSE IF then = "reset" THEN Finish(d, "OSError")
          ELSE IF then = "close" THEN Finish(d, "incomplete")
          ELSE [d EXCEPT !.pc = "recv_hung"] :
      stream \in RequestStreamsOn(c.ep), then \in {"close", "reset", "wait"} }

RecvRequest(c) ==
    /\ c.pc = "recv"
    /\ \E d \in AfterRecvMessage(c) : conns' = ReplaceConn(c, d)
    /\ UNCHANGED <<args, env, clock, certs, startupVars, nstarted, lstate, http, rd>>

\* self.send_message(self.ERRORMESSAGE); then handle returns.
SendError(c) ==
    /\ c.pc = "error"
    /\ \E ok \in BOOLEAN :
          conns' = ReplaceConn(c,
                      IF ok THEN Sent(c, ERRORMESSAGE, "error", "exited")
                      ELSE Finish(c, "OSError"))
    /\ UNCHANGED <<args, env, clock, certs, startupVars, nstarted, lstate, http, rd>>

\* The client goes silent for good while the handler waits for it, in
\* wrap_socket or in recv: the sockets have no timeout.
Stall(c) ==
    /\ c.pc \in {"handshake", "recv"}
    /\ conns' = ReplaceConn(c, [c EXCEPT !.pc = c.pc \o "_hung"])
    /\ UNCHANGED <<args, env, clock, certs, startupVars, nstarted, lstate, http, rd>>

(***************************************************************************)
(* WebHandler: the HTTP directory.                                          *)
(***************************************************************************)
\* A request path, cut into pieces: "/", "?", and the text between them.
HttpPaths ==
    { <<"/">>, <<"/", "?", "x">>, <<"/", "ca3.crt">>,
      <<"/", "ca3.crt", "?", "x">>, <<"/", "nosuch">> }

\* self.path.find("?"): the index of the first "?", from 0; -1 without one.
FindQuery(path) ==
    LET S == {i \in 1..Len(path) : path[i] = "?"}
    IN  IF S = {} THEN -1 ELSE SetMin(S) - 1

RECURSIVE Join(_)
Join(pieces) == IF pieces = <<>> THEN "" ELSE Head(pieces) \o Join(Tail(pieces))

\* do_root: a line name:port for every item of the port map.
DoRoot(pm) == [route |-> "do_root", status |-> 200, body |-> pm]

\* do_GET
DoGet(path, files, pm) ==
    LET idx == FindQuery(path)
        p   == IF idx > 0 THEN SubSeq(path, 1, idx) ELSE path
        content == GetFile(files, Join(Tail(p)))
    IN  IF p = <<"/">> THEN DoRoot(pm)
        ELSE IF content.found /\ content.content # <<>>
        THEN [route |-> "do_content", status |-> 200, body |-> content.content]
        ELSE [route |-> "do_content", status |-> 404, body |-> <<>>]

\* The HTTP listener serves one GET.
HttpGet ==
    /\ Started("http")
    /\ \E r \in {DoGet(path, certs.files, portmap) : path \in HttpPaths} :
          http' = r
    /\ UNCHANGED <<args, env, clock, certs, startupVars, nstarted, lstate, conns, rd>>

(***************************************************************************)
(* The specifications of the server.                                        *)
(***************************************************************************)
\* With at most MaxConns connections no listener reaches max_children: the
\* listeners never block in waitpid.
Next ==
    \/ SpawnHttp
    \/ SpawnMapi
    \/ StartWorker
    \/ HttpGet
    \/ \E e \in MapiNames : Accept(e)
    \/ \E e \in MapiNames : Poll(e)
    \/ \E c \in BagToSet(conns) : Handshake(c)
    \/ \E c \in BagToSet(conns) : SendChallenge(c)
    \/ \E c \in BagToSet(conns) : RecvRequest(c)
    \/ \E c \in BagToSet(conns) : SendError(c)
    \/ \E c \in BagToSet(conns) : Stall(c)

Spec == Init /\ [][Next]_vars

\* Clients that connect to the plain endpoint and stay silent, beside the
\* population of Spec.
InitFlood ==
    InitServer([base_port |-> 8000, sequential |-> TRUE],
               [EnvUp EXCEPT !.flood = "plain"])

NextFlood == Next \/ \E e \in MapiNames : WaitpidReturn(e)

SpecFlood == InitFlood /\ [][NextFlood]_vars
(***************************************************************************)
(* SpecFrame: recv_message, one turn of its loop at a time, on the bytes a *)
(* peer sends before it closes the connection.                             *)
(***************************************************************************)
\* The byte values of the model: they make the headers 0x0000..0x0003 and
\* headers with the top bit set.
FrameBytes == {0, 1, 2, 3, 128, 255}

Streams == UNION {[1..n -> FrameBytes] : n \in 0..MaxStream}

\* recv_message is entered: nread = 0.
ReaderAt(stream) ==
    [ state  |-> "reading",
      stream |-> stream,
      pos    |-> 0,         \* the bytes taken from the connection
      nread  |-> 0,         \* recv_message's nread
      chunks |-> 0,         \* the turns of the loop done
      chunk  |-> [outcome |-> "none"],   \* the last turn: see RecvChunk
      result |-> FALSE ]    \* the value returned, once state = "done"

InitFrame ==
    /\ args = [base_port |-> 8000, sequential |-> TRUE]
    /\ env = EnvUp
    /\ clock = T0
    /\ certs = EmptyCerts
    /\ pc = "aborted"
    /\ nspawned = 0
    /\ next_port = 0
    /\ portmap = <<>>
    /\ workers = <<>>
    /\ sockets = <<>>
    /\ contexts = <<>>
    /\ nstarted = 0
    /\ lstate = [l \in MapiNames |-> "select"]
    /\ conns = EmptyBag
    /\ http = [route |-> None, status |-> 0, body |-> <<>>]
    /\ \E stream \in Streams : rd = ReaderAt(stream)

\* One turn of the while loop of recv_message.
RecvStep ==
    /\ rd.state = "reading"
    /\ LET c == RecvChunk(rd.stream, rd.pos)
       IN  rd' = [rd EXCEPT !.pos    = c.pos,
                            !.nread  = rd.nread + (c.pos - rd.pos),
                            !.chunks = rd.chunks + 1,
                            !.chunk  = c,
                            !.state  = IF c.outcome = "more" THEN "reading" ELSE "done",
                            !.result = c.outcome = "complete"]
    /\ UNCHANGED <<args, env, clock, certs, startupVars, nstarted, lstate, conns, http>>

NextFrame == RecvStep

SpecFrame == InitFrame /\ [][NextFrame]_vars

(***************************************************************************)
(* SpecPki: Certs.__init__ run one gen_ca/gen_server call at a time, the   *)
(* clock advancing between the calls.                                      *)
(***************************************************************************)
\* The time that passes before a call of gen_key reads the clock.
Delays == {0, 1, Day}

InitPki ==
    /\ args = [base_port |-> 8000, sequential |-> TRUE]
    /\ env = EnvUp
    /\ clock = T0
    /\ certs = EmptyCerts
    /\ pc = "gen_keys"
    /\ nspawned = 0
    /\ next_port = 0
    /\ portmap = <<>>
    /\ workers = <<>>
    /\ sockets = <<>>
    /\ contexts = <<>>
    /\ nstarted = 0
    /\ lstate = [l \in MapiNames |-> "select"]
    /\ conns = EmptyBag
    /\ http = [route |-> None, status |-> 0, body |-> <<>>]
    /\ rd = RdIdle

\* The next call of gen_keys: time passes, then gen_key reads the clock.
GenNext ==
    /\ pc = "gen_keys"
    /\ ~certs.failed
    /\ certs.ncalls < Len(Subjects)
    /\ \E d \in Delays :
          /\ clock' = clock + d
          /\ certs' = GenSubject(certs, certs.ncalls + 1, Hostname, clock + d)
    /\ UNCHANGED <<args, env, startupVars, nstarted, lstate, conns, http, rd>>

\* insert_file called with a name the store already holds: the assertion
\* fails and the exception ends main.
InsertFileAgain ==
    /\ pc = "gen_keys"
    /\ ~certs.failed
    /\ \E name \in DOMAIN certs.files :
          certs' = InsertFile(certs, name, <<>>)
    /\ pc' = IF certs'.failed THEN "aborted" ELSE pc
    /\ UNCHANGED <<args, env, clock, nspawned, next_port, portmap, workers,
                   sockets, contexts, nstarted, lstate, conns, http, rd>>

NextPki == GenNext \/ InsertFileAgain

SpecPki == InitPki /\ [][NextPki]_vars

(***************************************************************************)
(* The claims.                                                             *)
(***************************************************************************)
Conns == BagToSet(conns)

\* The place of an event in a handler's log; 0 when it is not there.
Pos(log, ev) ==
    LET S == {i \in 1..Len(log) : log[i] = ev}
    IN  IF S = {} THEN 0 ELSE SetMin(S)

IsTls(e) == contexts[e] # NoneRec

HandshakeFailed(c) ==
    Pos(c.log, "handshake_SSLError") > 0 \/ Pos(c.log, "handshake_OSError") > 0

\* C1: on every connection the events are ordered handshake completed (on a
\* TLS endpoint; none on plain) -> challenge sent -> request read -> error
\* blob sent: no challenge before the handshake, no error blob before the
\* challenge and the request, and the bytes sent are those messages in that
\* order.
C1_EventOrder ==
    \A c \in Conns :
        LET h  == Pos(c.log, "handshake")
            ch == Pos(c.log, "challenge")
            rq == Pos(c.log, "request")
            er == Pos(c.log, "error")
        IN  /\ (IsTls(c.ep) /\ ch > 0) => (0 < h /\ h < ch)
            /\ ~IsTls(c.ep) => h = 0
            /\ rq > 0 => (0 < ch /\ ch < rq)
            /\ er > 0 => (0 < rq /\ rq < er)
            /\ (c.sent # <<>>) = (ch > 0)
            /\ (Len(c.sent) > 1) = (er > 0)
            /\ Len(c.sent) <= 2
            /\ c.sent # <<>> => c.sent[1].body = CHALLENGE
            /\ Len(c.sent) > 1 => c.sent[2].body = ERRORMESSAGE

\* C1's case: a connection of a TLS endpoint that went through all four.
C1_Witness ==
    \E c \in Conns :
        /\ IsTls(c.ep)
        /\ c.log = <<"handshake", "challenge", "request", "error">>
        /\ Len(c.sent) = 2

\* The connections of a bag whose handshake failed, counted with multiplicity.
FailedHandshakes(b) ==
    LET S == {c \in BagToSet(b) : HandshakeFailed(c)}
    IN  BagCardinality([c \in S |-> b[c]])

\* C2: a failed TLS handshake is logged and closes only that connection: the
\* handler is over, with nothing sent (no challenge) and nothing read; and
\* the step in which a handshake fails changes that one connection only,
\* leaving the listener, the other listeners and the other connections as
\* they were, so that the endpoint goes on accepting.
C2_FailedHandshake ==
    /\ [](\A c \in Conns :
            HandshakeFailed(c) =>
                /\ Exited(c)
                /\ Len(c.log) = 1
                /\ c.sent = <<>>
                /\ IsTls(c.ep)
                /\ Started(c.ep)
                /\ lstate[c.ep] = "select")
    /\ [][FailedHandshakes(conns') > FailedHandshakes(conns) =>
            /\ lstate' = lstate
            /\ nstarted' = nstarted
            /\ pc' = pc
            /\ \E c \in Conns :
                  /\ c.pc = "handshake"
                  /\ \E ev \in {"handshake_SSLError", "handshake_OSError"} :
                        conns' = ReplaceConn(c, [c EXCEPT !.pc = "exited",
                                                          !.log = <<ev>>])]_vars

\* C2's case: a connection accepted on an endpoint after a handshake failed
\* there has been served to the end.
C2_Witness ==
    \E c \in Conns :
        /\ c.after_failure
        /\ c.log = <<"handshake", "challenge", "request", "error">>

DeclaredNames ==
    <<"plain", "server1", "server2", "server3", "expiredcert", "tls12",
      "clientauth">>

\* C4: in both port modes a MAPI listener begins accepting, and the HTTP
\* directory begins answering, only when the listener's socket is bound and
\* its port is in the port map.
C4_BoundBeforeAccepting ==
    /\ \A e \in MapiNames :
          (Started(e) \/ \E c \in Conns : c.ep = e) =>
              /\ e \in DOMAIN sockets
              /\ sockets[e].port \in 1..MaxPortNumber
              /\ e \in PortmapNames(portmap)
              /\ PortmapGet(portmap, e) = sockets[e].port
    /\ (Started("http") \/ http.status # 0) =>
          /\ "http" \in DOMAIN sockets
          /\ \A i \in 1..Len(DeclaredNames) :
                /\ DeclaredNames[i] \in DOMAIN sockets
                /\ DeclaredNames[i] \in PortmapNames(portmap)

\* C4's case: with ports assigned by the OS, a connection is being handled
\* and the directory has answered.
C4_Witness ==
    /\ ~args.sequential
    /\ http.status = 200
    /\ \E c \in Conns : c.log # <<>>

\* C5: with --sequential the HTTP listener binds base_port and the k-th MAPI
\* listener, in the declared order, base_port + k; without it every MAPI
\* listener asks for port 0 and the HTTP listener still binds base_port.
C5_PortAssignment ==
    /\ "http" \in DOMAIN sockets =>
          /\ sockets["http"].requested = args.base_port
          /\ args.base_port > 0 => sockets["http"].port = args.base_port
    /\ \A k \in 1..Len(DeclaredNames) :
          DeclaredNames[k] \in DOMAIN sockets =>
              LET sock == sockets[DeclaredNames[k]]
              IN  IF args.sequential
                  THEN /\ sock.requested = args.base_port + k
                       /\ sock.port = args.base_port + k
                       /\ PortmapGet(portmap, DeclaredNames[k])
                              = args.base_port + k
                  ELSE sock.requested = 0

\* C5's cases: all listeners up in sequential mode.
C5_Witness ==
    /\ args.sequential
    /\ args.base_port > 0
    /\ pc = "serve_forever"
    /\ nstarted = NumListeners

\* C6: once startup is over the port map holds exactly the seven declared
\* endpoint names, each once, with pairwise distinct ports, each the port its
\* listener is bound to; and that is the map the directory serves.
C6_PortMap ==
    pc = "serve_forever" =>
        /\ Len(portmap) = 7
        /\ \A i \in 1..7 : portmap[i][1] = DeclaredNames[i]
        /\ \A i, j \in 1..7 : portmap[i][2] = portmap[j][2] => i = j
        /\ \A i \in 1..7 :
              /\ portmap[i][2] = sockets[portmap[i][1]].port
              /\ portmap[i][2] \in 1..MaxPortNumber
              /\ portmap[i][2] # sockets["http"].port
        /\ http.route = "do_root" => (http.status = 200 /\ http.body = portmap)

\* C6's case: the ports come from the OS and the directory has served the map.
C6_Witness ==
    /\ ~args.sequential
    /\ pc = "serve_forever"
    /\ http.route = "do_root"
    /\ http.status = 200
    /\ nstarted = NumListeners

\* C3: stalled clients never block a listener: whenever every connection
\* there is belongs to a client that has stalled for good (in the handshake
\* or before its request), every started MAPI listener is in its accept
\* loop, ready to take a new connection.
C3_StalledNeverBlock ==
    (\A c \in Conns : Hung(c)) =>
        \A e \in MapiNames : Started(e) => lstate[e] = "select"

\* The cert id the endpoint table declares for every TLS endpoint.
DeclaredCertId ==
    [ server1 |-> "server1", server2 |-> "server2", server3 |-> "server3",
      expiredcert |-> "server1x", tls12 |-> "server1", clientauth |-> "server1" ]

\* C7: the version range of every TLS endpoint's acceptor: minimum = maximum
\* = TLS 1.2 on tls12, the one endpoint with a pin; on the others the
\* minimum is TLS 1.3 and the maximum is left unrestricted.
C7_VersionRange ==
    \A e \in DOMAIN DeclaredCertId :
        e \in DOMAIN contexts =>
            IF e = "tls12"
            THEN /\ contexts[e].minimum_version = TLSv1_2
                 /\ contexts[e].maximum_version = TLSv1_2
            ELSE /\ contexts[e].minimum_version = TLSv1_3
                 /\ contexts[e].maximum_version = MAXIMUM_SUPPORTED

\* C8: an acceptor requires a verified client certificate exactly on
\* clientauth, the one endpoint with a client trust id, and there the trust
\* anchors are the certificates of ca2.crt; the other TLS endpoints request
\* none.  Every acceptor holds the chain of <cert id>.crt and the key of
\* <cert id>.key of the cert id declared for it, which are the certificate
\* and the key generated for that subject.
C8_ClientVerification ==
    \A e \in DOMAIN DeclaredCertId :
        e \in DOMAIN contexts =>
            LET ctx     == contexts[e]
                id      == DeclaredCertId[e]
                subject == [O |-> "Org " \o id, CN |-> Hostname]
            IN  /\ ~ctx.error
                /\ (ctx.verify_mode = CERT_REQUIRED) = (e = "clientauth")
                /\ ctx.verify_mode \in {CERT_NONE, CERT_REQUIRED}
                /\ e = "clientauth" =>
                      /\ ctx.cadata = CertsOf(certs.files, "ca2.crt")
                      /\ ctx.cadata # <<>>
                /\ e # "clientauth" => ctx.cadata = <<>>
                /\ ctx.chain = CertsOf(certs.files, id \o ".crt")
                /\ ctx.chain[1] = certs.certs[subject]
                /\ ctx.key = certs.files[id \o ".key"][1].key
                /\ ctx.key = certs.keys[subject]
                /\ ctx.key = ctx.chain[1].public_key

\* C8's case: all the acceptors are built, and clientauth has completed a
\* handshake (with a client that presented a certificate it could verify).
C8_Witness ==
    /\ DOMAIN DeclaredCertId \subseteq DOMAIN contexts
    /\ \E c \in Conns : c.ep = "clientauth" /\ Pos(c.log, "handshake") > 0

\* C9: for every header H the reader takes size = H >> 1 and last = H & 1,
\* and a chunk it goes past (the reader did not meet the end of the stream
\* in it) had exactly size body bytes consumed.
C9_HeaderDecoding ==
    (rd.chunks > 0 /\ rd.chunk.header >= 0) =>
        /\ rd.chunk.size = rd.chunk.header \div 2
        /\ rd.chunk.last = (rd.chunk.header % 2 = 1)
        /\ rd.chunk.outcome # "eof" => rd.chunk.body = rd.chunk.header \div 2

\* C10 as the specification states it: on plain no handshake, and the first
\* message sent is the header 0x03 0x00 and 149 bytes.
C10_AsStated ==
    \A c \in Conns :
        c.ep = "plain" =>
            /\ c.pc \notin {"handshake", "handshake_hung"}
            /\ \A i \in 1..Len(c.log) :
                  c.log[i] \notin {"handshake", "handshake_SSLError",
                                   "handshake_OSError"}
            /\ c.sent # <<>> =>
                  /\ c.sent[1].head = <<3, 0>>
                  /\ Len(c.sent[1].body) = 149

\* C10, amended: on plain no handshake is ever attempted, and the first
\* bytes sent are the header 0xA5 0x00 (165 = 2 * 82 + 1) followed by the
\* 82 bytes of the challenge.
C10_PlainChallenge ==
    \A c \in Conns :
        c.ep = "plain" =>
            /\ c.pc \notin {"handshake", "handshake_hung"}
            /\ \A i \in 1..Len(c.log) :
                  c.log[i] \notin {"handshake", "handshake_SSLError",
                                   "handshake_OSError"}
            /\ c.sent # <<>> =>
                  /\ c.sent[1].head = <<165, 0>>
                  /\ Len(c.sent[1].body) = 82
                  /\ c.sent[1].body = CHALLENGE

\* C10's case: the challenge has gone out on a connection of plain.
C10_Witness ==
    \E c \in Conns : c.ep = "plain" /\ c.sent # <<>> /\ c.log[1] = "challenge"

\* The framing as the protocol defines it: the bytes from position pos on
\* hold a complete message when they are chunks, each a header H (16 bits,
\* little-endian, unsigned) and H >> 1 body bytes, up to and including a
\* chunk with H & 1 = 1.
RECURSIVE CompleteMessage(_, _)
CompleteMessage(stream, pos) ==
    IF Len(stream) - pos < 2
    THEN FALSE
    ELSE LET H == stream[pos + 1] + 256 * stream[pos + 2]
         IN  IF Len(stream) - (pos + 2) < H \div 2
             THEN FALSE
             ELSE IF H % 2 = 1
             THEN TRUE
             ELSE CompleteMessage(stream, pos + 2 + H \div 2)

\* C11: when the peer disconnects before a chunk with last = 1 has been
\* received, the connection is dropped with no error blob sent; the error
\* blob goes out only on connections on which a complete message arrived.
C11_NoErrorOnIncomplete ==
    \A c \in Conns :
        /\ (Pos(c.log, "request") > 0 \/ Pos(c.log, "error") > 0)
              => CompleteMessage(c.request, 0)
        /\ Pos(c.log, "incomplete") > 0 =>
              /\ ~CompleteMessage(c.request, 0)
              /\ Exited(c)
              /\ Len(c.sent) = 1

\* The subject table: the subjects in generation order, with their issuer
\* (None: a root CA) and their validity offsets in days.
SubjectTable ==
    << [name |-> "ca1",      parent |-> None,  before |-> 0,   after |-> 14],
       [name |-> "server1",  parent |-> "ca1", before |-> 0,   after |-> 14],
       [name |-> "server1x", parent |-> "ca1", before |-> -15, after |-> -1],
       [name |-> "ca2",      parent |-> None,  before |-> 0,   after |-> 14],
       [name |-> "server2",  parent |-> "ca2", before |-> 0,   after |-> 14],
       [name |-> "client2",  parent |-> "ca2", before |-> 0,   after |-> 14],
       [name |-> "ca3",      parent |-> None,  before |-> 0,   after |-> 14],
       [name |-> "server3",  parent |-> "ca3", before |-> 0,   after |-> 14] >>

\* The distinguished name of the i-th subject of the table.
SubjectDN(i) ==
    [ O  |-> "Org " \o SubjectTable[i].name,
      CN |-> IF SubjectTable[i].parent = None
             THEN "The Certificate Authority" ELSE Hostname ]

\* The subjects generated so far.
Generated == 1..certs.ncalls

\* C12: every generated subject is in the key, cert and parent maps, once;
\* a CA has no parent and a leaf's parent is a CA generated before it; the
\* chain of S.crt begins with S's certificate, ends with a self-signed CA
\* certificate, and each certificate's issuer is the next one's subject.
C12_PkiMaps ==
    /\ certs.ncalls <= Len(SubjectTable)
    /\ \A i, j \in Generated : SubjectDN(i) = SubjectDN(j) => i = j
    /\ DOMAIN certs.keys = {SubjectDN(i) : i \in Generated}
    /\ DOMAIN certs.certs = {SubjectDN(i) : i \in Generated}
    /\ DOMAIN certs.parents = {SubjectDN(i) : i \in Generated}
    /\ \A i \in Generated :
          LET S     == SubjectDN(i)
              row   == SubjectTable[i]
              chain == CertsOf(certs.files, row.name \o ".crt")
              last  == chain[Len(chain)]
          IN  /\ certs.certs[S].subject = S
              /\ certs.certs[S].public_key = certs.keys[S]
              /\ IF row.parent = None
                 THEN certs.parents[S] = NoneRec
                 ELSE \E j \in 1..(i - 1) :
                         /\ SubjectTable[j].name = row.parent
                         /\ SubjectTable[j].parent = None
                         /\ certs.parents[S] = SubjectDN(j)
                         /\ certs.certs[SubjectDN(j)].ca
              /\ chain # <<>>
              /\ chain[1] = certs.certs[S]
              /\ last.issuer = last.subject
              /\ last.signed_by = last.public_key
              /\ last.ca
              /\ \A k \in 1..(Len(chain) - 1) :
                    /\ chain[k].issuer = chain[k + 1].subject
                    /\ chain[k].signed_by = chain[k + 1].public_key

\* C12's case: all eight subjects are generated, the leaves with chains of
\* two certificates.
C12_Witness ==
    /\ certs.ncalls = 8
    /\ ~certs.failed
    /\ Len(CertsOf(certs.files, "server3.crt")) = 2
    /\ Len(CertsOf(certs.files, "ca3.crt")) = 1

\* The instant the validity of the i-th subject's certificate is counted
\* from, by its notBefore and by its notAfter.
ReferenceBefore(i) ==
    certs.certs[SubjectDN(i)].not_valid_before - SubjectTable[i].before * 86400

ReferenceAfter(i) ==
    certs.certs[SubjectDN(i)].not_valid_after - SubjectTable[i].after * 86400

\* C13: all the certificates of a run count their validity from one single
\* instant: for any two subjects, notBefore and notAfter less their offsets
\* are the same instant.
C13_SingleReferenceInstant ==
    \A i, j \in Generated :
        /\ ReferenceBefore(i) = ReferenceBefore(j)
        /\ ReferenceAfter(i) = ReferenceAfter(j)

\* C16: with t the instant gen_key read the clock at, a certificate has
\* notBefore = t + offset_before days and notAfter = t + offset_after days,
\* the offsets those of the subject table; server1x alone is expired at
\* generation, every other certificate is valid at t.
C16_ValidityWindow ==
    \A i \in Generated :
        LET c == certs.certs[SubjectDN(i)]
            t == IF i = certs.ncalls THEN clock ELSE ReferenceBefore(i)
        IN  /\ t \in 0..clock
            /\ c.not_valid_before = t + SubjectTable[i].before * 86400
            /\ c.not_valid_after = t + SubjectTable[i].after * 86400
            /\ (c.not_valid_after < t) = (SubjectTable[i].name = "server1x")
            /\ SubjectTable[i].name # "server1x" =>
                  (c.not_valid_before <= t /\ t < c.not_valid_after)
            /\ SubjectTable[i].name = "server1x" =>
                  /\ c.not_valid_before = t - 15 * 86400
                  /\ c.not_valid_after = t - 86400

\* C16's case: server1x has just been generated, after the clock advanced.
C16_Witness ==
    /\ certs.ncalls = 3
    /\ clock > 0
    /\ certs.certs[SubjectDN(3)].not_valid_after = clock - 86400

\* The artifact names of the i-th subject of the table.
ArtifactNames(i) ==
    {SubjectTable[i].name \o ".key", SubjectTable[i].name \o ".crt"}
        \cup (IF SubjectTable[i].name = "client2" THEN {"client2.keycrt"} ELSE {})

\* C14: the artifact store holds S.key and S.crt of every generated subject,
\* client2.keycrt, and nothing else (17 names after generation);
\* client2.keycrt is client2.key followed by client2.crt; an artifact, once
\* inserted, is never replaced: inserting an existing name fails, which
\* aborts startup and leaves the store as it was.
C14_ArtifactStore ==
    /\ [](/\ DOMAIN certs.files = UNION {ArtifactNames(i) : i \in Generated}
          /\ certs.ncalls = 8 => Cardinality(DOMAIN certs.files) = 17
          /\ "client2.keycrt" \in DOMAIN certs.files =>
                certs.files["client2.keycrt"]
                    = certs.files["client2.key"] \o certs.files["client2.crt"]
          /\ \A n \in DOMAIN certs.files : certs.files[n] # <<>>
          /\ certs.failed => pc = "aborted")
    /\ [][/\ \A n \in DOMAIN certs.files :
                /\ n \in DOMAIN certs'.files
                /\ certs'.files[n] = certs.files[n]
          /\ pc = "aborted" => certs' = certs]_vars

\* C14's case: after the generation a name was inserted a second time.
C14_Witness ==
    /\ certs.ncalls = 8
    /\ certs.failed
    /\ pc = "aborted"
    /\ "client2.keycrt" \in DOMAIN certs.files

\* Some listener accepts or serves: a worker thread runs, a connection
\* exists, or the directory has answered.
Serving == nstarted > 0 \/ conns # EmptyBag \/ http.status # 0

\* The port the next listener of startup asks for cannot be bound: it is
\* outside 0..65535, or held by another process or an earlier listener.
NextBindFails ==
    LET p == IF nspawned = 0 THEN args.base_port ELSE next_port
    IN  \/ p < 0
        \/ p > 65535
        \/ p # 0 /\ p \in env.busy
        \/ p # 0 /\ \E l \in DOMAIN sockets : sockets[l].port = p

\* C15: a startup failure is fatal and nothing is served partially: when
\* the keys cannot be generated or a listener's bind fails the process
\* aborts, and aborted it stays, no listener ever serving; a listener
\* serves only when all eight are bound, to valid ports, and the port map
\* has the seven endpoints.
C15_NoPartialServing ==
    /\ [](Serving =>
            /\ pc = "serve_forever"
            /\ ~certs.failed
            /\ "http" \in DOMAIN sockets
            /\ sockets["http"].port \in 1..65535
            /\ Len(portmap) = 7
            /\ \A i \in 1..7 :
                  /\ DeclaredNames[i] \in DOMAIN sockets
                  /\ sockets[DeclaredNames[i]].port \in 1..65535
                  /\ DeclaredNames[i] \in PortmapNames(portmap))
    /\ []((pc = "aborted" \/ certs.failed) => (pc = "aborted" /\ ~Serving))
    /\ [][(pc = "init" /\ NextBindFails) => pc' = "aborted"]_vars
    /\ [][pc = "aborted" => pc' = "aborted"]_vars

\* C15's case: startup aborted on a bind failure with listeners already
\* bound, none of them serving.
C15_Witness ==
    /\ pc = "aborted"
    /\ "server1" \in DOMAIN sockets
    /\ ~Serving

\* C17: over the headers the reader reads: it goes on to the next chunk
\* exactly after a chunk whose header has last = 0, whatever its size, and
\* reports a complete message at the first chunk whose header has last = 1,
\* whatever its size: a chunk of size 0 with last = 1 (H = 1) ends the
\* message, and a chunk with last = 0 never does.
C17_LastFlagAuthoritative ==
    /\ (rd.state \in {"reading", "done"} /\ rd.chunks > 0 /\ rd.chunk.header >= 0) =>
          LET H == rd.chunk.header
          IN  /\ rd.chunk.outcome = "complete" => H % 2 = 1
              /\ H % 2 = 0 => rd.chunk.outcome \in {"more", "eof"}
              /\ (H % 2 = 1 /\ rd.chunk.outcome # "eof")
                    => rd.chunk.outcome = "complete"
              /\ H = 1 => rd.chunk.outcome = "complete"
              /\ H = 0 => rd.chunk.outcome = "more"
              /\ rd.state = "reading" => H % 2 = 0
    /\ rd.state = "done" => rd.result = (rd.chunk.outcome = "complete")
    /\ (rd.state = "done" /\ rd.chunk.header < 0) => ~rd.result

\* C17's case: a chunk of size 0 with last = 0, then a chunk of size 0 with
\* last = 1, which completes the message.
C17_Witness ==
    /\ rd.state = "done"
    /\ rd.chunks = 2
    /\ rd.chunk.header = 1
    /\ rd.result
    /\ rd.nread = 4

\* The bytes of a message on the wire, every body byte with the value b (the
\* reader counts the body bytes and does not look at them).
Wire(m, b) == m.head \o [k \in 1..Len(m.body) |-> b]

\* C18: every message the server writes is one chunk: the header is the
\* 16-bit little-endian number 2N + 1, N the length of the message, followed
\* by the N bytes of the message; the server's own reader takes it for one
\* complete message of N + 2 bytes, in a single turn of its loop.
C18_OneChunkPerMessage ==
    \A c \in Conns :
        \A i \in 1..Len(c.sent) :
            LET m == c.sent[i]
                N == Len(m.body)
            IN  /\ m.body = (IF i = 1 THEN CHALLENGE ELSE ERRORMESSAGE)
                /\ m.head = <<(2 * N + 1) % 256, (2 * N + 1) \div 256>>
                /\ \A b \in {0, 1, 255} :
                      /\ Len(Wire(m, b)) = N + 2
                      /\ RecvMessage(Wire(m, b)) = [result |-> TRUE, nread |-> N + 2]
                      /\ RecvChunk(Wire(m, b), 0).outcome = "complete"
                      /\ RecvChunk(Wire(m, b), 0).size = N
                      /\ CompleteMessage(Wire(m, b), 0)

\* C18's case: the server has written both of its messages on a connection.
C18_Witness ==
    \E c \in Conns :
        /\ Len(c.sent) = 2
        /\ Len(c.sent[1].body) = 82
        /\ Len(c.sent[2].body) = 43
        /\ c.sent[2].head = <<87, 0>>

\* C19: the artifact store and the port map do not change once a listener
\* has begun accepting: no step of a listener, of a connection handler or
\* of the HTTP directory changes either; and an entry of the port map, once
\* written by spawn_mapi, is never written again.
C19_Immutable ==
    [][/\ nstarted > 0 => (certs' = certs /\ portmap' = portmap)
       /\ certs'.files = certs.files
       /\ Len(portmap') >= Len(portmap)
       /\ \A i \in 1..Len(portmap) : portmap'[i] = portmap[i]
       /\ \A i, j \in 1..Len(portmap') :
             portmap'[i][1] = portmap'[j][1] => i = j]_vars

\* C19's case: all the listeners run, the directory has served an artifact
\* and a connection has ended on an I/O failure.
C19_Witness ==
    /\ nstarted = 8
    /\ http.route = "do_content"
    /\ http.status = 200
    /\ \E c \in Conns : Exited(c) /\ Pos(c.log, "OSError") > 0

\* The number of times an event is in a handler's log.
Count(log, ev) == Cardinality({i \in 1..Len(log) : log[i] = ev})

\* C20: a connection whose peer has done its part is closed in the end: the
\* handler is never left waiting in recv for a peer that has sent a complete
\* message, and it has exited once the handshake failed, the peer closed
\* its side or the error blob went out; on a connection the challenge is
\* sent at most once, the error blob at most once, and nothing after it.
C20_ClosedInTheEnd ==
    \A c \in Conns :
        /\ c.pc = "recv_hung" => ~CompleteMessage(c.request, 0)
        /\ HandshakeFailed(c) => Exited(c)
        /\ Pos(c.log, "incomplete") > 0 => Exited(c)
        /\ Pos(c.log, "error") > 0 =>
              /\ Exited(c)
              /\ c.log[Len(c.log)] = "error"
              /\ c.sent[Len(c.sent)].body = ERRORMESSAGE
        /\ Count(c.log, "challenge") <= 1
        /\ Count(c.log, "error") <= 1
        /\ Len(c.sent) = Count(c.log, "challenge") + Count(c.log, "error")

=============================================================================
